---- MODULE Spec2Model ----
(***************************************************************************)
(* Model of the image converter service (src/main.py): the POST /convert/  *)
(* handler convert_image, the reCAPTCHA client verify_recaptcha and the    *)
(* pure helper sanitize_filename.                                          *)
(*                                                                         *)
(* Strings are sequences of one-character strings, so that lower(),        *)
(* rsplit(), re.sub() and strip() are computed character by character.     *)
(* Scores and the threshold are in hundredths (0.3 is 30).                 *)
(***************************************************************************)
EXTENDS Integers, Sequences, FiniteSets, TLC

\* Longest exhaustively enumerated filename.
MaxLen == 3

(***************************************************************************)
(* Characters and the Python string operations the handler uses.           *)
(***************************************************************************)
UpperChars ==
  <<"A","B","C","D","E","F","G","H","I","J","K","L","M",
    "N","O","P","Q","R","S","T","U","V","W","X","Y","Z">>

LowerChars ==
  <<"a","b","c","d","e","f","g","h","i","j","k","l","m",
    "n","o","p","q","r","s","t","u","v","w","x","y","z">>

Digits ==
  {"0","1","2","3","4","5","6","7","8","9"}

Range(s) ==
  {s[i] : i \in 1..Len(s)}

\* str.lower() on one character.
LowerChar(c) ==
  IF \E i \in 1..26 : UpperChars[i] = c
    THEN LowerChars[CHOOSE i \in 1..26 : UpperChars[i] = c]
    ELSE c

\* str.upper() on one character (used only to enumerate letter cases).
UpperChar(c) ==
  IF \E i \in 1..26 : LowerChars[i] = c
    THEN UpperChars[CHOOSE i \in 1..26 : LowerChars[i] = c]
    ELSE c

\* target_format.lower()
Lower(s) ==
  [i \in 1..Len(s) |-> LowerChar(s[i])]

\* Characters str.strip() treats as whitespace.
IsSpace(c) ==
  c \in {" ", "\t", "\n", "\r"}

\* Characters the pattern [^A-Za-z0-9 _\-] keeps.
IsAllowed(c) ==
  c \in Range(UpperChars) \cup Range(LowerChars) \cup Digits \cup {" ", "_", "-"}

\* re.sub(r'[^A-Za-z0-9 _\-]', "", name)
RemoveDisallowed(s) ==
  SelectSeq(s, IsAllowed)

RECURSIVE LStrip(_)
LStrip(s) ==
  IF s # <<>> /\ IsSpace(Head(s)) THEN LStrip(Tail(s)) ELSE s

RECURSIVE RStrip(_)
RStrip(s) ==
  IF s # <<>> /\ IsSpace(s[Len(s)]) THEN RStrip(SubSeq(s, 1, Len(s) - 1)) ELSE s

\* str.strip(): leading and trailing whitespace removed.
Strip(s) ==
  LStrip(RStrip(s))

HasDot(s) ==
  "." \in Range(s)

LastDot(s) ==
  CHOOSE i \in 1..Len(s) : s[i] = "." /\ \A j \in (i + 1)..Len(s) : s[j] # "."

\* name.rsplit(".", 1)[0]
RSplitHead(s) ==
  IF HasDot(s) THEN SubSeq(s, 1, LastDot(s) - 1) ELSE s

Converted ==
  <<"c","o","n","v","e","r","t","e","d">>

\* Variant of sanitize_filename that cuts at the first '.' (split for rsplit).
sanitize_filename_first_dot(name, ext) ==
  LET dots  == {i \in 1..Len(name) : name[i] = "."}
      base  == IF dots = {} THEN name
               ELSE SubSeq(name, 1, (CHOOSE m \in dots : \A j \in dots : m <= j) - 1)
      clean == Strip(RemoveDisallowed(base))
      final == IF clean = <<>> THEN Converted ELSE clean
  IN  final \o <<".">> \o ext

\* sanitize_filename(name, ext)
sanitize_filename(name, ext) ==
  LET base  == IF HasDot(name) THEN RSplitHead(name) ELSE name
      clean == Strip(RemoveDisallowed(base))
      final == IF clean = <<>> THEN Converted ELSE clean
  IN  final \o <<".">> \o ext

(***************************************************************************)
(* Format registry (the supported_formats dict of convert_image).          *)
(***************************************************************************)
webp == <<"w","e","b","p">>

jpeg == <<"j","p","e","g">>

png == <<"p","n","g">>

ico == <<"i","c","o">>

gif == <<"g","i","f">>

jpg == <<"j","p","g">>

\* Variant of the registry that also lists the spelling "jpg".
supported_formats_with_jpg ==
  (webp :> "WEBP") @@ (jpeg :> "JPEG") @@ (jpg :> "JPEG") @@ (png :> "PNG")
    @@ (ico :> "ICO") @@ (gif :> "GIF")

supported_formats ==
  (webp :> "WEBP") @@ (jpeg :> "JPEG") @@ (png :> "PNG") @@ (ico :> "ICO") @@ (gif :> "GIF")

\* quality=85 of the JPEG save call.
JpegQuality == 85

\* sizes=[(16, 16), (32, 32), (48, 48), (64, 64)] of the ICO save call.
IcoSizes ==
  <<16, 32, 48, 64>>

\* Default of RECAPTCHA_V3_THRESHOLD, in hundredths.
DefaultThreshold == 30

(***************************************************************************)
(* Request inputs and answers of the verification service.                 *)
(***************************************************************************)
None ==
  [present |-> FALSE, text |-> <<>>]

Some(s) ==
  [present |-> TRUE, text |-> s]

\* Python truthiness of "x and x.strip()" for an optional string.
NonBlank(opt) ==
  opt.present /\ opt.text # <<>> /\ Strip(opt.text) # <<>>

RECURSIVE Variants(_)
\* Every upper/lower-case spelling of a key.
Variants(s) ==
  IF s = <<>> THEN {<<>>}
  ELSE {<<c>> \o t : c \in {s[1], UpperChar(s[1])}, t \in Variants(Tail(s))}

SupportedKeys ==
  {webp, jpeg, png, ico, gif}

NearMisses ==
  {jpg, <<"J","P","G">>, <<"b","m","p">>, <<"t","i","f","f">>, <<>>,
   <<" ","p","n","g">>, <<"p","n","g"," ">>, <<"p","n","g","s">>, <<"j","p","e">>}

TargetFormats ==
  UNION {Variants(k) : k \in SupportedKeys} \cup NearMisses

\* Modes Image.open can report; RGBA and LA are the two the handler coerces.
Modes ==
  {"RGB", "RGBA", "LA", "L", "P", "PA"}

\* Modes the JPEG encoder of the codec accepts among Modes.
JpegWritable ==
  {"RGB", "L"}

NotImage == "NOT_IMAGE"

Uploads ==
  [readable : {TRUE}, decodesTo : Modes \cup {NotImage}]
    \cup [readable : {FALSE}, decodesTo : {NotImage}]

NameAlphabet ==
  {"a", ".", " ", "!"}

Names(n) ==
  UNION {[1..k -> NameAlphabet] : k \in 0..n}

ExtraNames ==
  {<<"M","y"," ","P","h","o","t","o","!","!",".","p","n","g">>,
   <<"#","#","#">>,
   <<"a","r","t",".","j","p","e","g">>,
   <<" ","x","_","Y","-","9"," ",".","t","x","t">>,
   <<"a",".","t","a","r",".","g","z">>,
   <<"\t"," ">>,
   <<"\t","b","\t">>}

AllNames ==
  Names(MaxLen) \cup ExtraNames

SmallNames ==
  {<<"p",".","p","n","g">>, <<"a",".","b",".","c">>, <<" ">>}

Thresholds ==
  {DefaultThreshold, 50}

ScoreValues ==
  {0, 100} \cup UNION {{t - 1, t} : t \in Thresholds}

\* The "score" member of the JSON answer: missing, null, a number, or a
\* value float() rejects.
Scores ==
  [tag : {"absent", "null", "text"}, val : {0}] \cup [tag : {"num"}, val : ScoreValues]

ErrorCodes ==
  {[present |-> FALSE, list |-> <<>>],
   [present |-> TRUE, list |-> <<"invalid-input-response">>],
   [present |-> TRUE, list |-> <<"timeout-or-duplicate", "bad-request">>]}

\* JSON answers that are objects.
ObjectResults ==
  [object : {TRUE}, success : {"true", "false", "absent"}, score : Scores, codes : ErrorCodes]

\* A JSON answer that is not an object (a list, a number, a string).
NonObjectResult ==
  [object |-> FALSE, success |-> "absent", score |-> [tag |-> "absent", val |-> 0],
   codes |-> [present |-> FALSE, list |-> <<>>]]

NoResult ==
  [object |-> FALSE, success |-> "unset", score |-> [tag |-> "absent", val |-> 0],
   codes |-> [present |-> FALSE, list |-> <<>>]]

NoScore ==
  [tag |-> "none", val |-> 0]

NoImage ==
  [decoded |-> "none", mode |-> "none"]

NoBuffer ==
  [format |-> "none", mode |-> "none", quality |-> 0, sizes |-> <<>>]

NoResponse ==
  [status |-> 0, body |-> "none", handled |-> TRUE, msg |-> "none",
   format |-> <<>>, codes |-> <<>>, score |-> 0, cause |-> "none",
   content |-> NoBuffer, media |-> <<>>, filename |-> <<>>]

(***************************************************************************)
(* State of one handling of POST /convert/.                                *)
(***************************************************************************)
VARIABLES
  pc,                      \* position of the handler
  file,                    \* the upload: [filename, readable, decodesTo]
  target_format,           \* form field, as submitted
  output_filename,         \* optional form field
  RECAPTCHA_V3_THRESHOLD,  \* configured at startup, in hundredths
  upstream,                \* what the verification service did with the call
  recaptcha_result,        \* answer of verify_recaptcha
  score,                   \* local "score" after float()
  format_key,
  contents,                \* what file.read() returned
  img,                     \* [decoded, mode]
  output_buffer,
  new_filename,
  response,                \* what the client receives
  log                      \* steps taken so far, in order

vars ==
  <<pc, file, target_format, output_filename, RECAPTCHA_V3_THRESHOLD, upstream,
    recaptcha_result, score, format_key, contents, img, output_buffer, new_filename, response, log>>

request ==
  <<file, target_format, output_filename, RECAPTCHA_V3_THRESHOLD>>

locals ==
  <<recaptcha_result, score, format_key, contents, img, output_buffer, new_filename>>

\* raise HTTPException(status_code, detail): FastAPI answers with the JSON
\* object {"detail": ...}.
HTTPException(status, msg) ==
  [NoResponse EXCEPT !.status = status, !.body = "json_detail", !.msg = msg]

\* An exception that leaves convert_image without being turned into an
\* HTTPException: the server answers with its bare "Internal Server Error".
Escapes(cause) ==
  [NoResponse EXCEPT !.status = 500, !.body = "plain_text", !.handled = FALSE,
                     !.cause = cause]

\* except Exception as e: raise HTTPException(500, f"... {str(e)}")
ConversionError(cause) ==
  [HTTPException(500, "An error occurred during conversion") EXCEPT !.cause = cause]

Finish(r, step) ==
  /\ response' = r
  /\ pc' = "done"
  /\ log' = Append(log, step)

Goto(next, step) ==
  /\ pc' = next
  /\ log' = Append(log, step)
  /\ UNCHANGED response

\* A request as it enters the handler.
Start(f, fmt, out, thr) ==
  /\ pc = "verify"
  /\ file = f
  /\ target_format = fmt
  /\ output_filename = out
  /\ RECAPTCHA_V3_THRESHOLD = thr
  /\ upstream = "none"
  /\ recaptcha_result = NoResult
  /\ score = NoScore
  /\ format_key = <<>>
  /\ contents = "none"
  /\ img = NoImage
  /\ output_buffer = NoBuffer
  /\ new_filename = <<>>
  /\ response = NoResponse
  /\ log = <<>>

PlainUpload ==
  [filename |-> Some(<<"p",".","p","n","g">>), readable |-> TRUE, decodesTo |-> "RGB"]

Files(names) ==
  {[filename |-> n, readable |-> u.readable, decodesTo |-> u.decodesTo] :
     n \in names, u \in Uploads}

\* Every spelling of the target format, and every kind of upload with every
\* supported key.
Init ==
  \E thr \in Thresholds :
    \/ \E fmt \in TargetFormats : Start(PlainUpload, fmt, None, thr)
    \/ \E fmt \in SupportedKeys \cup {<<"J","P","E","G">>, jpg} :
       \E f \in Files({None} \cup {Some(n) : n \in SmallNames}) :
       \E out \in {None} \cup {Some(n) : n \in SmallNames} :
         Start(f, fmt, out, thr)

\* Every user-supplied and every upload filename up to MaxLen.
InitNames ==
  \/ \E fmt \in {png, <<"G","I","F">>} :
       \/ \E out \in {Some(n) : n \in AllNames} :
          \E up \in {None, Some(<<"p",".","p","n","g">>)} :
            Start([PlainUpload EXCEPT !.filename = up], fmt, out, DefaultThreshold)
       \/ \E out \in {None, Some(<<>>), Some(<<" ">>), Some(<<"\t"," ">>)} :
          \E up \in {None} \cup {Some(n) : n \in AllNames} :
            Start([PlainUpload EXCEPT !.filename = up], fmt, out, DefaultThreshold)
  \/ \E fmt \in {jpeg, jpg} :
     \E f \in Files({Some(<<"a",".","b">>)}) :
       Start(f, fmt, None, DefaultThreshold)

(***************************************************************************)
(* verify_recaptcha, called at the first line of convert_image.            *)
(***************************************************************************)
\* Variant of VerifyTransportError that repeats a failed call once.
VerifyTransportErrorRetried ==
  /\ pc = "verify"
  /\ \E kind \in {"timeout", "connect"} : upstream' = kind
  /\ IF log = <<>>
       THEN Goto("verify", "verify")
       ELSE Finish(HTTPException(502, "Gagal memverifikasi reCAPTCHA (network)."), "verify")
  /\ UNCHANGED <<request, locals>>

\* client.post raises a timeout or a connection error: httpx.HTTPError.
VerifyTransportError ==
  /\ pc = "verify"
  /\ \E kind \in {"timeout", "connect"} : upstream' = kind
  /\ Finish(HTTPException(502, "Gagal memverifikasi reCAPTCHA (network)."), "verify")
  /\ UNCHANGED <<request, locals>>

\* Variant of VerifyBadStatus without raise_for_status: the error page reaches
\* resp.json().
VerifyBadStatusUnchecked ==
  /\ pc = "verify"
  /\ \E status \in {"status 3xx", "status 4xx", "status 5xx"} : upstream' = status
  /\ Finish(Escapes("JSONDecodeError"), "verify")
  /\ UNCHANGED <<request, locals>>

\* resp.raise_for_status() raises httpx.HTTPStatusError on a non-2xx answer.
VerifyBadStatus ==
  /\ pc = "verify"
  /\ \E status \in {"status 3xx", "status 4xx", "status 5xx"} : upstream' = status
  /\ Finish(HTTPException(502, "Gagal memverifikasi reCAPTCHA (network)."), "verify")
  /\ UNCHANGED <<request, locals>>

\* resp.json() raises on a 2xx answer whose body is not JSON; the error is
\* no httpx.HTTPError and the call is outside the handler's second try.
VerifyUnparseable ==
  /\ pc = "verify"
  /\ upstream' = "not json"
  /\ Finish(Escapes("JSONDecodeError"), "verify")
  /\ UNCHANGED <<request, locals>>

VerifyReturns ==
  /\ pc = "verify"
  /\ upstream' = "json"
  /\ \E r \in ObjectResults \cup {NonObjectResult} : recaptcha_result' = r
  /\ Goto("check_success", "verify")
  /\ UNCHANGED <<request, score, format_key, contents, img, output_buffer, new_filename>>

(***************************************************************************)
(* convert_image, statement by statement.                                  *)
(***************************************************************************)
\* Variant of CheckSuccess that never rejects.
CheckSuccessIgnored ==
  /\ pc = "check_success"
  /\ IF ~recaptcha_result.object
       THEN Finish(Escapes("AttributeError"), "check_success")
       ELSE Goto("check_score", "check_success")
  /\ UNCHANGED <<request, upstream, locals>>

\* Variant of CheckSuccess that looks the codes up under a key the service
\* never sends.
CheckSuccessWrongKey ==
  /\ pc = "check_success"
  /\ IF ~recaptcha_result.object
       THEN Finish(Escapes("AttributeError"), "check_success")
       ELSE IF recaptcha_result.success # "true"
         THEN Finish(HTTPException(400, "reCAPTCHA validation failed."), "check_success")
         ELSE Goto("check_score", "check_success")
  /\ UNCHANGED <<request, upstream, locals>>

\* if not recaptcha_result.get("success", False): raise 400 with the codes
CheckSuccess ==
  /\ pc = "check_success"
  /\ IF ~recaptcha_result.object
       THEN Finish(Escapes("AttributeError"), "check_success")
       ELSE IF recaptcha_result.success # "true"
         THEN Finish([HTTPException(400, "reCAPTCHA validation failed.")
                        EXCEPT !.codes = recaptcha_result.codes.list], "check_success")
         ELSE Goto("check_score", "check_success")
  /\ UNCHANGED <<request, upstream, locals>>

\* Variant of CheckScore that also rejects a score equal to the threshold.
CheckScoreInclusive ==
  /\ pc = "check_score"
  /\ LET got == recaptcha_result.score
         s   == IF got.tag = "num" THEN [tag |-> "num", val |-> got.val] ELSE NoScore
     IN  /\ score' = s
         /\ IF s.tag = "num" /\ s.val <= RECAPTCHA_V3_THRESHOLD
              THEN Finish([HTTPException(400, "reCAPTCHA score too low")
                             EXCEPT !.score = s.val], "check_score")
              ELSE Goto("resolve", "check_score")
  /\ UNCHANGED <<request, upstream, recaptcha_result, format_key, contents, img,
                 output_buffer, new_filename>>

\* score = recaptcha_result.get("score"); float(score) or None; the comparison
\* with the threshold.
CheckScore ==
  /\ pc = "check_score"
  /\ LET got == recaptcha_result.score
         s   == IF got.tag = "num" THEN [tag |-> "num", val |-> got.val] ELSE NoScore
     IN  /\ score' = s
         /\ IF s.tag = "num" /\ s.val < RECAPTCHA_V3_THRESHOLD
              THEN Finish([HTTPException(400, "reCAPTCHA score too low")
                             EXCEPT !.score = s.val], "check_score")
              ELSE Goto("resolve", "check_score")
  /\ UNCHANGED <<request, upstream, recaptcha_result, format_key, contents, img, output_buffer,
                 new_filename>>

\* format_key = target_format.lower(); the allow-list test.
ResolveFormat ==
  /\ pc = "resolve"
  /\ format_key' = Lower(target_format)
  /\ IF format_key' \notin DOMAIN supported_formats
       THEN Finish([HTTPException(400, "Target format is not supported.")
                      EXCEPT !.format = target_format], "resolve")
       ELSE Goto("read", "resolve")
  /\ UNCHANGED <<request, upstream, recaptcha_result, score, contents, img, output_buffer,
                 new_filename>>

\* contents = await file.read()
ReadUpload ==
  /\ pc = "read"
  /\ IF ~file.readable
       THEN /\ Finish(ConversionError("read failed"), "read")
            /\ UNCHANGED contents
       ELSE /\ contents' = file.decodesTo
            /\ Goto("decode", "read")
  /\ UNCHANGED <<request, upstream, recaptcha_result, score, format_key, img, output_buffer,
                 new_filename>>

\* img = Image.open(io.BytesIO(contents))
Decode ==
  /\ pc = "decode"
  /\ IF contents = NotImage
       THEN /\ Finish(ConversionError("cannot identify image file"), "decode")
            /\ UNCHANGED img
       ELSE /\ img' = [decoded |-> contents, mode |-> contents]
            /\ Goto("coerce", "decode")
  /\ UNCHANGED <<request, upstream, recaptcha_result, score, format_key, contents, output_buffer,
                 new_filename>>

\* Variant of Coerce that converts for every target format.
CoerceAnyFormat ==
  /\ pc = "coerce"
  /\ img' = IF img.mode \in {"RGBA", "LA"}
              THEN [img EXCEPT !.mode = "RGB"]
              ELSE img
  /\ Goto("encode", "coerce")
  /\ UNCHANGED <<request, upstream, recaptcha_result, score, format_key, contents,
                 output_buffer, new_filename>>

\* if img.mode in ("RGBA", "LA") and format_key in ("jpeg", "jpg"): convert
Coerce ==
  /\ pc = "coerce"
  /\ img' = IF img.mode \in {"RGBA", "LA"} /\ format_key \in {jpeg, jpg}
              THEN [img EXCEPT !.mode = "RGB"]
              ELSE img
  /\ Goto("encode", "coerce")
  /\ UNCHANGED <<request, upstream, recaptcha_result, score, format_key, contents, output_buffer,
                 new_filename>>

\* The three img.save calls. The codec refuses a mode its JPEG encoder
\* cannot write, and may fail for reasons of its own.
Encode ==
  /\ pc = "encode"
  /\ LET pil_format == supported_formats[format_key]
     IN  \E codecOk \in BOOLEAN :
           IF pil_format = "JPEG" /\ img.mode \notin JpegWritable
             THEN /\ Finish(ConversionError("cannot write mode as JPEG"), "encode")
                  /\ UNCHANGED output_buffer
             ELSE IF ~codecOk
               THEN /\ Finish(ConversionError("encoder error"), "encode")
                    /\ UNCHANGED output_buffer
               ELSE /\ output_buffer' =
                         [format  |-> pil_format,
                          mode    |-> img.mode,
                          quality |-> IF format_key # ico /\ pil_format = "JPEG"
                                        THEN JpegQuality ELSE 0,
                          sizes   |-> IF format_key = ico THEN IcoSizes ELSE <<>>]
                    /\ Goto("filename", "encode")
  /\ UNCHANGED <<request, upstream, recaptcha_result, score, format_key, contents, img, new_filename>>

\* The choice between output_filename and file.filename, and the sanitizer.
ComputeFilename ==
  /\ pc = "filename"
  /\ new_filename' =
       IF NonBlank(output_filename)
         THEN sanitize_filename(output_filename.text, format_key)
         ELSE LET original_name ==
                    RSplitHead(IF file.filename.present /\ file.filename.text # <<>>
                                 THEN file.filename.text ELSE Converted)
              IN  sanitize_filename(original_name, format_key)
  /\ Goto("respond", "filename")
  /\ UNCHANGED <<request, upstream, recaptcha_result, score, format_key, contents, img, output_buffer>>

\* return Response(content, media_type=f"image/{format_key}", headers)
Respond ==
  /\ pc = "respond"
  /\ Finish([NoResponse EXCEPT !.status = 200, !.body = "bytes",
                               !.content = output_buffer,
                               !.media = <<"i","m","a","g","e","/">> \o format_key,
                               !.filename = new_filename], "respond")
  /\ UNCHANGED <<request, upstream, locals>>

Next ==
  \/ VerifyTransportError
  \/ VerifyBadStatus
  \/ VerifyUnparseable
  \/ VerifyReturns
  \/ CheckSuccess
  \/ CheckScore
  \/ ResolveFormat
  \/ ReadUpload
  \/ Decode
  \/ Coerce
  \/ Encode
  \/ ComputeFilename
  \/ Respond

Spec ==
  Init /\ [][Next]_vars

SpecNames ==
  InitNames /\ [][Next]_vars

\* The handler is scheduled until it answers; every await is bounded.
LiveSpec ==
  Init /\ [][Next]_vars /\ WF_vars(Next)

(***************************************************************************)
(* Vocabulary of the properties, stated independently of the handler.      *)
(***************************************************************************)
StepOrder ==
  <<"verify", "check_success", "check_score", "resolve", "read", "decode", "coerce",
    "encode", "filename", "respond">>

Count(step) ==
  Cardinality({i \in 1..Len(log) : log[i] = step})

Did(step) ==
  \E i \in 1..Len(log) : log[i] = step

\* The key a submitted target format names when letter case is ignored.
IsSupported(fmt) ==
  \E k \in SupportedKeys : fmt \in Variants(k)

KeyOf(fmt) ==
  CHOOSE k \in SupportedKeys : fmt \in Variants(k)

\* The verification service answered success = true with a score that is
\* absent or not below the threshold.
VerificationPassed ==
  /\ upstream = "json"
  /\ recaptcha_result.object
  /\ recaptcha_result.success = "true"
  /\ ~(recaptcha_result.score.tag = "num"
       /\ recaptcha_result.score.val < RECAPTCHA_V3_THRESHOLD)

Answered ==
  pc = "done"

Artifact ==
  Answered /\ response.status = 200

\* C1: the steps run in the order verification, format resolution,
\* decode/encode, filename, response; the upload is read, decoded or encoded
\* and an HTTP 200 artifact is returned only if the verification of the same
\* request succeeded with a score absent or not below the threshold and the
\* target format resolved to a supported key.
C1_GatedPipeline ==
  /\ log = SubSeq(StepOrder, 1, Len(log))
  /\ (Did("read") \/ Did("decode") \/ Did("encode") \/ contents # "none"
        \/ img # NoImage \/ output_buffer # NoBuffer \/ response.status = 200)
       => (VerificationPassed /\ IsSupported(target_format))

C1_Witness ==
  /\ Artifact
  /\ recaptcha_result.score.tag = "num"
  /\ recaptcha_result.score.val = RECAPTCHA_V3_THRESHOLD
  /\ target_format # KeyOf(target_format)

\* C2: a verified request whose target format, lower-cased, is none of webp,
\* jpeg, png, ico, gif ends with HTTP 400 naming the submitted value and no
\* read, decode or encode; one whose target format is in the set in any
\* letter case is not rejected as unsupported.
C2_ClosedAllowList ==
  Did("resolve") =>
    IF IsSupported(target_format)
      THEN /\ response.msg # "Target format is not supported."
           /\ format_key = KeyOf(target_format)
           /\ ~(Answered /\ log[Len(log)] = "resolve")
      ELSE /\ Answered
           /\ response.status = 400
           /\ response.body = "json_detail"
           /\ response.msg = "Target format is not supported."
           /\ response.format = target_format
           /\ ~Did("read") /\ ~Did("decode") /\ ~Did("encode")

C2_Witness ==
  /\ Answered
  /\ target_format = jpg
  /\ response.status = 400
  /\ response.format = jpg

\* C3: when the verification call fails by timeout, connection error or a
\* non-2xx status, the request ends with HTTP 502 and neither the format
\* lookup nor the conversion runs.
C3_VerificationUnavailable ==
  upstream \in {"timeout", "connect", "status 3xx", "status 4xx", "status 5xx"} =>
    /\ Answered
    /\ response.status = 502
    /\ response.body = "json_detail"
    /\ log = <<"verify">>
    /\ format_key = <<>>
    /\ output_buffer = NoBuffer

C3_Witness ==
  /\ Answered
  /\ upstream = "timeout"
  /\ response.status = 502
  /\ IsSupported(target_format)

\* C4: with success = true the request is rejected with HTTP 400 carrying
\* the score exactly when a score is present and strictly below the
\* threshold; a score at or above the threshold, or an absent one, goes on
\* to format resolution.
C4_ScoreGate ==
  LET got   == recaptcha_result.score
      below == got.tag = "num" /\ got.val < RECAPTCHA_V3_THRESHOLD
      low   == Answered /\ response.msg = "reCAPTCHA score too low"
  IN  (recaptcha_result.object /\ recaptcha_result.success = "true" /\ Did("check_score")) =>
        /\ low <=> below
        /\ low => /\ response.status = 400
                  /\ response.body = "json_detail"
                  /\ response.score = got.val
                  /\ log[Len(log)] = "check_score"
        /\ ~below => (pc = "resolve" \/ Did("resolve"))

C4_Witness ==
  /\ recaptcha_result.success = "true"
  /\ recaptcha_result.score.tag = "num"
  /\ recaptcha_result.score.val = RECAPTCHA_V3_THRESHOLD
  /\ Did("resolve")

\* C5: with success = false the request ends with HTTP 400 whose detail
\* carries the service's error codes, whatever the score, the target format
\* and the upload.
C5_VerificationRejected ==
  (recaptcha_result.object /\ recaptcha_result.success = "false" /\ Did("check_success")) =>
    /\ Answered
    /\ response.status = 400
    /\ response.body = "json_detail"
    /\ response.msg = "reCAPTCHA validation failed."
    /\ response.codes = IF recaptcha_result.codes.present
                          THEN recaptcha_result.codes.list ELSE <<>>
    /\ log = <<"verify", "check_success">>

C5_Witness ==
  /\ Answered
  /\ recaptcha_result.success = "false"
  /\ recaptcha_result.score.tag = "num"
  /\ recaptcha_result.score.val = 100
  /\ recaptcha_result.codes.list = <<"invalid-input-response">>
  /\ IsSupported(target_format)
  /\ file.decodesTo = "RGBA"
  /\ response.status = 400

(***************************************************************************)
(* Reference filename rules, computed from positions rather than by the    *)
(* handler's string operations.                                            *)
(***************************************************************************)
MaxOf(S) ==
  CHOOSE m \in S : \A j \in S : j <= m

MinOf(S) ==
  CHOOSE m \in S : \A j \in S : m <= j

\* The name without the text after its last '.' (and without that '.').
RefBase(name) ==
  LET dots == {i \in 1..Len(name) : name[i] = "."}
  IN  IF dots = {} THEN name ELSE SubSeq(name, 1, MaxOf(dots) - 1)

RECURSIVE RefKeep(_)
\* Only alphanumerics, space, underscore and hyphen are kept.
RefKeep(name) ==
  IF name = <<>> THEN <<>>
  ELSE LET c    == Head(name)
           keep == \/ \E i \in 1..26 : c = LowerChars[i] \/ c = UpperChars[i]
                   \/ c \in Digits
                   \/ c \in {" ", "_", "-"}
       IN  (IF keep THEN <<c>> ELSE <<>>) \o RefKeep(Tail(name))

RefTrimTrailing(s) ==
  LET solid == {i \in 1..Len(s) : s[i] # " "}
  IN  IF solid = {} THEN <<>> ELSE SubSeq(s, 1, MaxOf(solid))

RefTrimBoth(s) ==
  LET solid == {i \in 1..Len(s) : s[i] # " "}
  IN  IF solid = {} THEN <<>> ELSE SubSeq(s, MinOf(solid), MaxOf(solid))

RefOrConverted(s) ==
  IF s = <<>> THEN Converted ELSE s

\* The user-supplied name is the one used.
UserNamed ==
  /\ output_filename.present
  /\ \E i \in 1..Len(output_filename.text) :
       output_filename.text[i] \notin {" ", "\t", "\n", "\r"}

\* C6 as stated: only trailing whitespace is trimmed from the cleaned name.
C6_TrailingTrimOnly ==
  (Artifact /\ UserNamed) =>
    response.filename =
      RefOrConverted(RefTrimTrailing(RefKeep(RefBase(output_filename.text))))
        \o <<".">> \o KeyOf(target_format)

\* C6, amended: for a non-blank user-supplied name and a supported key the
\* returned filename is the name without the text after its last '.',
\* without any character other than alphanumerics, space, underscore and
\* hyphen, trimmed of leading and trailing whitespace, replaced by
\* 'converted' when empty, followed by '.' and the lowercase key.
C6_SanitizedUserName ==
  (Artifact /\ UserNamed) =>
    response.filename =
      RefOrConverted(RefTrimBoth(RefKeep(RefBase(output_filename.text))))
        \o <<".">> \o KeyOf(target_format)

C6_Witness ==
  /\ Artifact
  /\ output_filename = Some(<<" ", "a", "!">>)
  /\ target_format = <<"G","I","F">>
  /\ response.filename = <<"a", ".", "g", "i", "f">>

\* C7: without a user-supplied name the returned filename is the upload
\* filename with its extension stripped exactly once (then cleaned like any
\* name), or 'converted' when the upload has no filename, followed by '.'
\* and the lowercase key.
C7_UploadNameStrippedOnce ==
  (Artifact /\ ~UserNamed) =>
    response.filename =
      (IF file.filename.present /\ file.filename.text # <<>>
         THEN RefOrConverted(RefTrimBoth(RefKeep(RefBase(file.filename.text))))
         ELSE Converted)
        \o <<".">> \o KeyOf(target_format)

\* C8: every request that does not succeed ends with an error response
\* produced by the handler: status 400, 502 or 500 and a JSON body with a
\* 'detail' message; an unexpected failure at any step becomes a 500.
C8_EveryErrorHandled ==
  (Answered /\ response.status # 200) =>
    /\ response.status \in {400, 502, 500}
    /\ response.body = "json_detail"
    /\ response.handled
    /\ response.msg # "none"

\* C9: the decoded image is converted to RGB exactly when the target key is
\* jpeg and its mode is RGBA or LA; for every other key it is encoded in its
\* decoded mode, and for jpeg the conversion precedes the encode, which then
\* does not fail on the alpha channel.
C9_CoercionOnlyForJpeg ==
  Did("coerce") =>
    LET alphaToJpeg == KeyOf(target_format) = jpeg /\ file.decodesTo \in {"RGBA", "LA"}
    IN  /\ img.decoded = file.decodesTo
        /\ (img.mode # img.decoded) <=> alphaToJpeg
        /\ alphaToJpeg => /\ img.mode = "RGB"
                          /\ response.cause # "cannot write mode as JPEG"
        /\ output_buffer # NoBuffer =>
             output_buffer.mode = (IF alphaToJpeg THEN "RGB" ELSE file.decodesTo)

C9_Witness ==
  /\ Artifact
  /\ file.decodesTo = "RGBA"
  /\ format_key = jpeg
  /\ response.content.mode = "RGB"
  /\ response.content.quality = JpegQuality

OneOutcome ==
  /\ Count("verify") <= 1
  /\ Count("decode") <= 1
  /\ Count("encode") <= 1
  /\ Count("respond") <= 1
  /\ ~Answered => response = NoResponse
  /\ Answered =>
       \/ /\ response.status = 200
          /\ response.body = "bytes"
          /\ response.content # NoBuffer
          /\ response.msg = "none" /\ response.cause = "none"
       \/ /\ response.status \in {400, 500, 502}
          /\ response.body \in {"json_detail", "plain_text"}
          /\ response.content = NoBuffer

\* C10: each request ends with exactly one outcome, an artifact or an
\* error, after at most one verification call and at most one decode and
\* one encode.
C10_ExactlyOneOutcome ==
  /\ []OneOutcome
  /\ [][Answered => UNCHANGED vars]_vars
  /\ <>Answered

C10_Witness ==
  /\ Answered
  /\ upstream = "timeout"
  /\ Count("verify") = 1
  /\ response.status = 502

====
